---- MODULE Spec2Model ----
(***************************************************************************)
(* rand-functors: one random process evaluated under the five strategies   *)
(* Sampler, Enumerator, PopulationSampler<N>, UniqueEnumerator and Counter.*)
(* The process starts with Functor::pure(base) and applies fmap,           *)
(* fmap_rand, fmap_rand_range and fmap_flat steps; every strategy runs the *)
(* same steps on its own functor.                                          *)
(***************************************************************************)
EXTENDS Integers, Sequences, FiniteSets, TLC

(* ------------------------------ bounds --------------------------------- *)
\* The inner type is an unsigned integer with the values 0..MaxVal.
MaxVal == 2
\* Number of lifted operators a process applies after pure.
MaxSteps == 2
\* Longest Enumerator sequence a process may build (working memory).
MaxLen == 12
\* Largest compile-time bound N of PopulationSampler<N>.
MaxPop == 2
\* Width of usize, the type of Counter's counts.  usize is as wide as the
\* target's pointers (32 or 64 bits where std is available); the width is
\* scaled down so that a count can be doubled up to usize::MAX + 1 in a process
\* of UsizeBits steps.
UsizeBits == 16

Values == 0..MaxVal
Modulus == MaxVal + 1

(* ------------------- closures handed to the operators ------------------ *)
\* |s| s                                   (identity law)
Identity == [a \in Values |-> a]
\* |s| s.wrapping_sub(1)
WrappingSub1 == [a \in Values |-> (a + Modulus - 1) % Modulus]
\* |s| s % 2: maps distinct inputs to the same output
RemTwo == [a \in Values |-> a % 2]
MapFuncs == {Identity, WrappingSub1, RemTwo}

\* |s, r: bool| if r { s.wrapping_sub(1) } else { s }
DecIf == [p \in Values \X BOOLEAN |-> IF p[2] THEN (p[1] + Modulus - 1) % Modulus ELSE p[1]]
\* |s, r: bool| if r { s % 2 } else { s }
RemIf == [p \in Values \X BOOLEAN |-> IF p[2] THEN p[1] % 2 ELSE p[1]]
BoolFuncs == {DecIf, RemIf}

\* |_, r| r
Second == [p \in Values \X Values |-> p[2]]
\* |d, r| d.saturating_sub(r)
SaturatingSub == [p \in Values \X Values |-> IF p[1] >= p[2] THEN p[1] - p[2] ELSE 0]
IntFuncs == {Second, SaturatingSub}
\* |_, r| r % 2: maps distinct draws to the same output
Parity == [p \in Values \X Values |-> p[2] % 2]

(* ----------------------------- sample spaces --------------------------- *)
\* bool::sample_space(): [false, true]
Bool_sample_space == <<FALSE, TRUE>>

\* The iterator lo, lo+1, .., hi (empty when hi < lo).
Interval(lo, hi) == [i \in 1..(hi - lo + 1) |-> lo + i - 1]

\* Range<T>::sample_space(): the half-open range lo..hi
Range_sample_space(lo, hi) == Interval(lo, hi - 1)
\* RangeInclusive<T>::sample_space(): the closed range lo..=hi
RangeInclusive_sample_space(lo, hi) == Interval(lo, hi)

\* A range value: Range (incl = FALSE) or RangeInclusive (incl = TRUE).
\* The ranges handed to fmap_rand_range: 0..0, 0..MaxVal, 1..0, 1..MaxVal and
\* 0..=0, 0..=MaxVal, 1..=0, 1..=MaxVal (empty, one-element and longer ones)
Ranges == [incl : BOOLEAN, lo : {0, 1}, hi : {0, MaxVal}]
sample_space(range) ==
  IF range.incl THEN RangeInclusive_sample_space(range.lo, range.hi)
  ELSE Range_sample_space(range.lo, range.hi)

(* ------------------------------- helpers ------------------------------- *)
SeqRange(s) == {s[i] : i \in DOMAIN s}
Count(s, v) == Cardinality({i \in DOMAIN s : s[i] = v})

RECURSIVE Gcd(_, _)
\* num::integer::gcd on unsigned integers; gcd(a, 0) = a
Gcd(a, b) == IF b = 0 THEN a ELSE Gcd(b, a % b)
\* Mutant: the sum instead of the least common multiple
Lcm_Sum(a, b) == a + b
\* num::integer::lcm: 0 when both are 0, else a * (b / gcd(a, b))
Lcm(a, b) == IF a = 0 /\ b = 0 THEN 0 ELSE a * (b \div Gcd(a, b))

\* Mutant: the fold keeps the last number instead of combining
FoldLcm_Last(ns) == ns[Len(ns)]
RECURSIVE FoldLcm(_)
\* children.iter().fold(None, ..): lcm of a non-empty sequence of numbers
FoldLcm(ns) ==
  IF Len(ns) = 1 THEN ns[1]
  ELSE Lcm(FoldLcm(SubSeq(ns, 1, Len(ns) - 1)), ns[Len(ns)])

RECURSIVE Concat(_)
\* Flattening of a sequence of sequences (first half, then second half)
Concat(ss) ==
  IF ss = <<>> THEN <<>>
  ELSE IF Len(ss) = 1 THEN ss[1]
  ELSE Concat(SubSeq(ss, 1, Len(ss) \div 2)) \o Concat(SubSeq(ss, Len(ss) \div 2 + 1, Len(ss)))

\* Mutant: the sequence is yielded once, whatever n is
RepeatN_Once(s, n) == s
RECURSIVE RepeatN(_, _)
\* core::iter::repeat_n(functor, n), flattened
RepeatN(s, n) == IF n = 0 THEN <<>> ELSE s \o RepeatN(s, n - 1)

(* ---------------------------- random variables ------------------------- *)
\* The types R: RandomVariable a process draws from
Bool == [kind |-> "bool"]
\* u8, i8, ..: an integer type of the given signedness and width
Integer(signed, bits) == [kind |-> "int", signed |-> signed, bits |-> bits]
\* Pair<A, B>
Pair(A, B) == [kind |-> "Pair", x |-> A, y |-> B]

\* Mutant: the signed minimum is the negated maximum
Int_MIN_Symmetric(R) == IF R.signed THEN 1 - 2^(R.bits - 1) ELSE 0
\* Self::MIN
Int_MIN(R) == IF R.signed THEN 0 - 2^(R.bits - 1) ELSE 0
\* Self::MAX
Int_MAX(R) == IF R.signed THEN 2^(R.bits - 1) - 1 ELSE 2^R.bits - 1
\* Self::MIN..=Self::MAX
Int_sample_space(R) == RangeInclusive_sample_space(Int_MIN(R), Int_MAX(R))

\* A::sample_space().flat_map(|a| B::sample_space().map(move |b| Pair { x: a, y: b }))
Pair_sample_space(xs, ys) ==
  Concat([i \in DOMAIN xs |-> [j \in DOMAIN ys |-> [x |-> xs[i], y |-> ys[j]]]])

RECURSIVE RandomVariable_sample_space(_)
\* R::sample_space()
RandomVariable_sample_space(R) ==
  IF R.kind = "bool" THEN Bool_sample_space
  ELSE IF R.kind = "int" THEN Int_sample_space(R)
  ELSE Pair_sample_space(RandomVariable_sample_space(R.x), RandomVariable_sample_space(R.y))

(* --------------------------- the random source ------------------------- *)
\* The state of an Rng is its position in its stream of values: the position
\* the process received it at plus the number of values drawn since.  Seeds are
\* the positions a process written for S: FlattenableRandomStrategy receives
\* it at; a process followed under PopulationSampler<N> receives it at 0.
Seeds == {0, 1}
\* Mutant: one call draws two values
Rng_gen_Twice(rng) == rng + 2
\* rng.gen() / rng.gen_range(..): one value is drawn
Rng_gen(rng) == rng + 1
\* Mutant: the parameter is drawn from once
Ignored_Drawn(rng) == Rng_gen(rng)
\* `_: &mut impl Rng`: the parameter is never used
Ignored(rng) == rng

(* --------------------------- Functor::pure ----------------------------- *)
Inner_pure(i) == i
Vec_pure(i) == <<i>>
HashMap_pure(i) == i :> 1
HashSet_pure(i) == {i}

(* ------------------------------- Sampler ------------------------------- *)
Sampler_fmap(f, func) == func[f]
\* r is the value rng.gen() returned
Sampler_fmap_rand(f, r, func) == func[<<f, r>>]
\* Mutant: the closure is handed the value after the one drawn
Sampler_fmap_rand_range_Next(f, r, func) == func[<<f, (r + 1) % Modulus>>]
\* r is the value rng.gen_range(range) returned; an empty range panics
Sampler_fmap_rand_range(f, r, func) == func[<<f, r>>]

(* ------------------------------ Enumerator ----------------------------- *)
RECURSIVE vec_fmap_rand_SpaceMajor(_, _, _)
\* Mutant: outer over the sample space, inner over f
vec_fmap_rand_SpaceMajor(f, space, func) ==
  IF space = <<>> THEN <<>>
  ELSE [k \in DOMAIN f |-> func[<<f[k], Head(space)>>]]
         \o vec_fmap_rand_SpaceMajor(f, Tail(space), func)
RECURSIVE vec_fmap_rand(_, _, _)
\* f.into_iter().flat_map(|a| space.map(move |r| (a.clone(), r)))
\*     .map(|(a, r)| func(a, r)).collect()
vec_fmap_rand(f, space, func) ==
  IF f = <<>> THEN <<>>
  ELSE [j \in DOMAIN space |-> func[<<Head(f), space[j]>>]]
         \o vec_fmap_rand(Tail(f), space, func)

Enumerator_fmap(f, func) == [k \in DOMAIN f |-> func[f[k]]]
Enumerator_fmap_rand(f, R, func) == vec_fmap_rand(f, RandomVariable_sample_space(R), func)
Enumerator_fmap_rand_range(f, range, func) == vec_fmap_rand(f, sample_space(range), func)

(* ---------------------- closures handed to fmap_flat ------------------- *)
NoRange == [incl |-> FALSE, lo |-> 0, hi |-> 0]
\* kind "test":   |d| if d != 0 { Functor::pure(d) }
\*                    else { S::fmap_rand_range(Functor::pure(d), range, rng, func) }
\* kind "spread": |d| S::fmap_rand_range(Functor::pure(d), 0..=d, func)
\* kind "pure":   |d| Functor::pure(d)
ChildFuncs ==
  {[kind |-> "test", range |-> rg, func |-> Second] : rg \in {r \in Ranges : r.incl}}
    \cup {[kind |-> "spread", range |-> NoRange, func |-> g] : g \in IntFuncs \cup {Parity}}
    \cup {[kind |-> "pure", range |-> NoRange, func |-> <<>>]}
NoChild == [kind |-> "none", range |-> NoRange, func |-> <<>>]
SpreadRange(d) == [incl |-> TRUE, lo |-> 0, hi |-> d]

Enumerator_child(c, d) ==
  IF c.kind = "pure" THEN Vec_pure(d)
  ELSE IF c.kind = "test"
  THEN IF d # 0 THEN Vec_pure(d)
       ELSE Enumerator_fmap_rand_range(Vec_pure(d), c.range, c.func)
  ELSE Enumerator_fmap_rand_range(Vec_pure(d), SpreadRange(d), c.func)

\* Mutant: the children are concatenated without being repeated
Enumerator_fmap_flat_Plain(f, c) ==
  [panic |-> FALSE, val |-> Concat([k \in DOMAIN f |-> Enumerator_child(c, f[k])])]
\* Enumerator::fmap_flat; panic = the division length_lcm / functor.len() by zero
Enumerator_fmap_flat(f, c) ==
  LET children == [k \in DOMAIN f |-> Enumerator_child(c, f[k])]
      lens == [k \in DOMAIN f |-> Len(children[k])]
  IN IF f = <<>> THEN [panic |-> FALSE, val |-> <<>>]
     ELSE LET length_lcm == FoldLcm(lens)
          IN IF \E k \in DOMAIN f : lens[k] = 0
             THEN [panic |-> TRUE, val |-> <<>>]
             ELSE [panic |-> FALSE,
                   val |-> Concat([k \in DOMAIN f |->
                             RepeatN(children[k], length_lcm \div lens[k])])]

(* --------------------------- PopulationSampler ------------------------- *)
\* Mutant: the removed slot is filled with the first element, not the last
SwapRemove_First(f, i) == [k \in 1..(Len(f) - 1) |-> IF k = i THEN f[1] ELSE f[k]]
\* Vec::swap_remove(index), index counted from 1 here
SwapRemove(f, i) == [k \in 1..(Len(f) - 1) |-> IF k = i THEN f[Len(f)] ELSE f[k]]

RECURSIVE ShrinkLoop_OffByOne(_, _)
\* Mutant: the loop stops one element early (f.len() > N + 1)
ShrinkLoop_OffByOne(fs, n) ==
  IF \E s \in fs : Len(s.f) > n + 1
  THEN ShrinkLoop_OffByOne(
         UNION {{[f |-> SwapRemove(s.f, i), rng |-> Rng_gen(s.rng)] : i \in 1..Len(s.f)}
                  : s \in fs}, n)
  ELSE fs

RECURSIVE ShrinkLoop(_, _)
\* while f.len() > N { let index = rng.gen_range(0..f.len()); f.swap_remove(index); }
\* fs holds every pair (f, rng) the loop head can be at (all of one length), over
\* all the indices the rng can return
ShrinkLoop(fs, n) ==
  IF \E s \in fs : Len(s.f) > n
  THEN ShrinkLoop(
         UNION {{[f |-> SwapRemove(s.f, i), rng |-> Rng_gen(s.rng)] : i \in 1..Len(s.f)}
                  : s \in fs}, n)
  ELSE fs

\* Every vector shrink_to_capacity can return for the vector f, with the state
\* it leaves the rng in
shrink_to_capacity(f, n, rng) == ShrinkLoop({[f |-> f, rng |-> rng]}, n)

PopulationSampler_fmap(f, func) == [k \in DOMAIN f |-> func[f[k]]]
PopulationSampler_fmap_rand(f, n, R, rng, func) ==
  shrink_to_capacity(vec_fmap_rand(f, RandomVariable_sample_space(R), func), n, rng)
\* Mutant: a closed range is enumerated as if it were half-open
PopulationSampler_fmap_rand_range_HalfOpen(f, n, range, rng, func) ==
  shrink_to_capacity(vec_fmap_rand(f, Range_sample_space(range.lo, range.hi), func), n, rng)
PopulationSampler_fmap_rand_range(f, n, range, rng, func) ==
  shrink_to_capacity(vec_fmap_rand(f, sample_space(range), func), n, rng)

(* ---------------------------- UniqueEnumerator ------------------------- *)
UniqueEnumerator_fmap(f, func) == {func[a] : a \in f}
UniqueEnumerator_fmap_rand(f, R, func) ==
  {func[<<a, RandomVariable_sample_space(R)[j]>>]
     : a \in f, j \in DOMAIN RandomVariable_sample_space(R)}
\* Mutant: a closed range is enumerated as if it were half-open
UniqueEnumerator_fmap_rand_range_HalfOpen(f, range, func) ==
  {func[<<a, r>>] : a \in f, r \in SeqRange(Range_sample_space(range.lo, range.hi))}
UniqueEnumerator_fmap_rand_range(f, range, func) ==
  {func[<<a, sample_space(range)[j]>>] : a \in f, j \in DOMAIN sample_space(range)}
UniqueEnumerator_child(c, d) ==
  IF c.kind = "pure" THEN HashSet_pure(d)
  ELSE IF c.kind = "test"
  THEN IF d # 0 THEN HashSet_pure(d)
       ELSE UniqueEnumerator_fmap_rand_range(HashSet_pure(d), c.range, c.func)
  ELSE UniqueEnumerator_fmap_rand_range(HashSet_pure(d), SpreadRange(d), c.func)
UniqueEnumerator_fmap_flat(f, c) == UNION {UniqueEnumerator_child(c, a) : a \in f}

(* -------------------------------- Counter ------------------------------ *)
EmptyMap == <<>>
RECURSIVE KeySeq(_)
\* The keys of a map in iteration order.  HashMap's order is unspecified; every
\* use below folds with + or lcm, so the result does not depend on it.
KeySeq(S) ==
  IF S = {} THEN <<>>
  ELSE LET m == CHOOSE x \in S : TRUE IN <<m>> \o KeySeq(S \ {m})
Keys(f) == KeySeq(DOMAIN f)

RECURSIVE SumSeq(_)
SumSeq(ns) == IF ns = <<>> THEN 0 ELSE Head(ns) + SumSeq(Tail(ns))
\* Mutant: the number of keys instead of the sum of the counts
WeightSum_KeyCount(f) == Cardinality(DOMAIN f)
\* functor.values().fold(N::zero(), |sum, inner_count| sum + inner_count)
WeightSum(f) == SumSeq([i \in DOMAIN Keys(f) |-> f[Keys(f)[i]]])

usize_MAX == 2^UsizeBits - 1
\* a + b and a * b on usize where they do not panic: without overflow checks
\* (release builds) the result wraps around usize::MAX
wrapping_add(a, b) == (a + b) % (usize_MAX + 1)
wrapping_mul(a, b) == (a * b) % (usize_MAX + 1)

\* Mutant: a new entry starts from one, not from zero
Insert_FromOne(m, o, count) ==
  IF o \in DOMAIN m THEN [m EXCEPT ![o] = wrapping_add(@, count)]
  ELSE m @@ (o :> wrapping_add(1, count))
\* *new_functor.entry(o).or_insert(N::zero()) += count
Insert(m, o, count) ==
  IF o \in DOMAIN m THEN [m EXCEPT ![o] = wrapping_add(@, count)]
  ELSE m @@ (o :> wrapping_add(0, count))

\* Mutant: a later pair replaces the count of its key instead of adding to it
Accumulate_Overwrite(m, pairs) ==
  [o \in DOMAIN m \cup {pairs[i][1] : i \in DOMAIN pairs} |->
     IF \E i \in DOMAIN pairs : pairs[i][1] = o
     THEN pairs[CHOOSE i \in DOMAIN pairs :
                  pairs[i][1] = o /\ \A j \in DOMAIN pairs : j > i => pairs[j][1] # o][2]
     ELSE m[o]]
RECURSIVE Accumulate(_, _)
\* .for_each(|(o, count)| ..) over the pairs the iterator yields
Accumulate(m, pairs) ==
  IF pairs = <<>> THEN m
  ELSE Accumulate(Insert(m, Head(pairs)[1], Head(pairs)[2]), Tail(pairs))

\* Some += of the loop over the pairs goes beyond usize::MAX: the counts are
\* not negative, so one does as soon as the exact total of a key does
overflows(pairs) ==
  \E i \in DOMAIN pairs :
    SumSeq([j \in DOMAIN pairs |-> IF pairs[j][1] = pairs[i][1] THEN pairs[j][2] ELSE 0])
      > usize_MAX

\* Mutant: every entry adds one instead of its count
Counter_fmap_CountKeys(f, func) ==
  Accumulate(EmptyMap, [i \in DOMAIN Keys(f) |-> <<func[Keys(f)[i]], 1>>])
Counter_fmap(f, func) ==
  Accumulate(EmptyMap, [i \in DOMAIN Keys(f) |-> <<func[Keys(f)[i]], f[Keys(f)[i]]>>])

RECURSIVE counter_pairs(_, _, _, _)
\* f.into_iter().flat_map(|a| space.map(move |r| (a.clone(), r)))
\*     .map(|((a, c), r)| (func(a, r), c))
counter_pairs(f, keys, space, func) ==
  IF keys = <<>> THEN <<>>
  ELSE [j \in DOMAIN space |-> <<func[<<Head(keys), space[j]>>], f[Head(keys)]>>]
         \o counter_pairs(f, Tail(keys), space, func)

Counter_fmap_rand(f, R, func) ==
  Accumulate(EmptyMap, counter_pairs(f, Keys(f), RandomVariable_sample_space(R), func))
\* Mutant: a closed range is enumerated as if it were half-open
Counter_fmap_rand_range_HalfOpen(f, range, func) ==
  Accumulate(EmptyMap, counter_pairs(f, Keys(f), Range_sample_space(range.lo, range.hi), func))
Counter_fmap_rand_range(f, range, func) ==
  Accumulate(EmptyMap, counter_pairs(f, Keys(f), sample_space(range), func))

Counter_child(c, d) ==
  IF c.kind = "pure" THEN HashMap_pure(d)
  ELSE IF c.kind = "test"
  THEN IF d # 0 THEN HashMap_pure(d)
       ELSE Counter_fmap_rand_range(HashMap_pure(d), c.range, c.func)
  ELSE Counter_fmap_rand_range(HashMap_pure(d), SpreadRange(d), c.func)

\* Mutant: the outer count is dropped from the product
ScaledCount_NoOuter(scaling, inner_count, outer_count) == wrapping_mul(scaling, inner_count)
\* scaling.clone() * inner_count * outer_count.clone()
ScaledCount(scaling, inner_count, outer_count) ==
  wrapping_mul(wrapping_mul(scaling, inner_count), outer_count)

\* Mutant: the child's counts are not rescaled
ChildPairs_NoScaling(child, outer_count, scaling) ==
  [i \in DOMAIN Keys(child) |->
     <<Keys(child)[i], ScaledCount(1, child[Keys(child)[i]], outer_count)>>]
\* The pairs (output, weight) one child adds to new_functor in the final loop
ChildPairs(child, outer_count, scaling) ==
  [i \in DOMAIN Keys(child) |->
     <<Keys(child)[i], ScaledCount(scaling, child[Keys(child)[i]], outer_count)>>]

\* Counter::fmap_flat; panic = the division inner_count_lcm / inner_count_sum by
\* zero; added[a] = the total weight the final loop adds for the outer key a
Counter_fmap_flat(f, c) ==
  LET keys == Keys(f)
      child == [a \in DOMAIN f |-> Counter_child(c, a)]
      sum == [a \in DOMAIN f |-> WeightSum(child[a])]
  IN IF keys = <<>> THEN [panic |-> FALSE, val |-> EmptyMap, added |-> EmptyMap]
     ELSE LET inner_count_lcm == FoldLcm([i \in DOMAIN keys |-> sum[keys[i]]])
          IN IF \E a \in DOMAIN f : sum[a] = 0
             THEN [panic |-> TRUE, val |-> EmptyMap, added |-> EmptyMap]
             ELSE LET pairs == [i \in DOMAIN keys |->
                                  ChildPairs(child[keys[i]], f[keys[i]],
                                             inner_count_lcm \div sum[keys[i]])]
                  IN [panic |-> FALSE,
                      val |-> Accumulate(EmptyMap, Concat(pairs)),
                      added |-> [a \in DOMAIN f |->
                                   SumSeq([i \in DOMAIN Keys(child[a]) |->
                                     ChildPairs(child[a], f[a],
                                                inner_count_lcm \div sum[a])[i][2]])]]

(* ------------------------- Sampler under fmap_flat --------------------- *)
\* The values func(f) can return, over all values the rng it captured can
\* return, with the state it leaves that rng in; the empty set when
\* rng.gen_range panics on an empty range
Sampler_child(c, d, rng) ==
  IF c.kind = "pure" THEN {[val |-> Inner_pure(d), rng |-> rng]}
  ELSE IF c.kind = "test"
  THEN IF d # 0 THEN {[val |-> Inner_pure(d), rng |-> rng]}
       ELSE {[val |-> Sampler_fmap_rand_range(Inner_pure(d), r, c.func), rng |-> Rng_gen(rng)]
               : r \in SeqRange(sample_space(c.range))}
  ELSE {[val |-> Sampler_fmap_rand_range(Inner_pure(d), r, c.func), rng |-> Rng_gen(rng)]
          : r \in SeqRange(sample_space(SpreadRange(d)))}
\* Mutant: fmap_flat draws a value of its own after the closure returned
Sampler_fmap_flat_Draws(f, c, rng) ==
  {[val |-> o.val, rng |-> Rng_gen(o.rng)] : o \in Sampler_child(c, f, rng)}
Sampler_fmap_flat(f, c, rng) == Sampler_child(c, f, rng)

(* ------------------------------ the process ---------------------------- *)
\* A process is generic over its strategy S.  One written for
\* S: FlattenableRandomStrategy can be run under Sampler, Enumerator and Counter
\* (and beside them under UniqueEnumerator, which has its own fmap_flat); one
\* written for S: RandomStrategy without fmap_flat is followed here under
\* PopulationSampler<N> and Enumerator.
Flattenable == {"Sampler", "Enumerator", "UniqueEnumerator", "Counter"}
Bounded == {"PopulationSampler", "Enumerator"}
\* The processes of the tests, with their own values: those of fmap_flat.rs and
\* random_variable_ranges.rs are followed under Enumerator and Counter, the one
\* of custom_random_variables.rs is run under Enumerator.
Tested == {"Enumerator", "Counter"}
Enumerated == {"Enumerator"}
\* A process longer than an enumeration can follow is run under Counter, whose
\* map grows with the outputs only.
Counted == {"Counter"}

VARIABLES
  base,        \* the value handed to Functor::pure
  N,           \* the compile-time bound of PopulationSampler<N>
  run,         \* the strategies the process is run under
  steps,       \* number of lifted operators applied so far
  sm,          \* Sampler's functor
  en,          \* Enumerator's functor
  ps,          \* PopulationSampler<N>'s functor
  ue,          \* UniqueEnumerator's functor
  ct,          \* Counter's functor
  panicked,    \* the strategies whose run of the process has panicked
  flattened,   \* the process has used fmap_flat
  emptyChild,  \* some fmap_flat closure returned an empty child so far
  emptyRange,  \* some fmap_rand_range of the process, in a closure or not, has an empty range
  exceeded,    \* some expansion under PopulationSampler<N> was longer than N so far
  last,        \* the operator applied last and its arguments
  prev,        \* the functors the last operator was applied to (and who had panicked)
  added,       \* Counter::fmap_flat: weight its final loop added per outer key
  rng          \* the state of the rng handed to each strategy's run of the process

vars == <<base, N, run, steps, sm, en, ps, ue, ct, panicked, flattened, emptyChild, emptyRange,
          exceeded,
          last, prev, added, rng>>

Functors == [sm |-> sm, en |-> en, ps |-> ps, ue |-> ue, ct |-> ct, panicked |-> panicked,
             rng |-> rng]
Op(op, func, R, range, child) ==
  [op |-> op, func |-> func, rv |-> R, range |-> range, child |-> child]
\* The strategies whose run is still going on
Live == run \ panicked

\* A sequence the process may build: a process with the values 0..MaxVal is
\* stopped before its enumeration grows beyond MaxLen elements, a process of
\* the tests is followed to its end
Fits(f) == run \in {Tested, Enumerated} \/ Len(f) <= MaxLen

\* let functor = Functor::pure(base)
Pure ==
  /\ steps = 0
  /\ sm = Inner_pure(base)
  /\ en = Vec_pure(base)
  /\ ps = Vec_pure(base)
  /\ ue = HashSet_pure(base)
  /\ ct = HashMap_pure(base)
  /\ panicked = {}
  /\ flattened = FALSE
  /\ emptyChild = FALSE
  /\ emptyRange = FALSE
  /\ exceeded = FALSE
  /\ last = Op("pure", <<>>, Bool, NoRange, NoChild)
  /\ prev = [sm |-> Inner_pure(base), en |-> Vec_pure(base), ps |-> Vec_pure(base),
             ue |-> HashSet_pure(base), ct |-> HashMap_pure(base), panicked |-> {},
             rng |-> rng]
  /\ added = EmptyMap

Init ==
  /\ base \in Values
  /\ \/ run = Flattenable /\ N = 0
     \/ run = Bounded /\ N \in 0..MaxPop
  /\ \E seed \in (IF run = Flattenable THEN Seeds ELSE {0}) : rng = [x \in run |-> seed]
  /\ Pure

\* The rngs after a call that hands its rng to the operator: newSm and newPs are
\* the states Sampler and PopulationSampler<N> leave theirs in
Drawn(newSm, newPs) ==
  [x \in run |-> IF x \notin Live THEN rng[x]
                 ELSE IF x = "Sampler" THEN newSm
                 ELSE IF x = "PopulationSampler" THEN newPs
                 ELSE Ignored(rng[x])]

\* The number of operators a process applies
StepLimit == IF run = Counted THEN UsizeBits ELSE MaxSteps

\* What the loop of += over the pairs leaves of Counter's run, val being the
\* map it builds: an addition beyond usize::MAX panics where overflow checks
\* are compiled in (debug builds) and wraps where they are not
Adds(pairs, val) ==
  IF "Counter" \notin Live THEN {[panic |-> FALSE, val |-> ct]}
  ELSE IF overflows(pairs)
       THEN {[panic |-> TRUE, val |-> ct], [panic |-> FALSE, val |-> val]}
       ELSE {[panic |-> FALSE, val |-> val]}

\* What every step does besides calling the operator
Step(op) ==
  /\ steps < StepLimit
  /\ steps' = steps + 1
  /\ last' = op
  /\ prev' = Functors
  /\ UNCHANGED <<base, N, run>>

\* S::fmap(functor, func)
Fmap(func) ==
  /\ Step(Op("fmap", func, Bool, NoRange, NoChild))
  /\ sm' = IF "Sampler" \in Live THEN Sampler_fmap(sm, func) ELSE sm
  /\ en' = IF "Enumerator" \in Live THEN Enumerator_fmap(en, func) ELSE en
  /\ ps' = IF "PopulationSampler" \in Live THEN PopulationSampler_fmap(ps, func) ELSE ps
  /\ ue' = IF "UniqueEnumerator" \in Live THEN UniqueEnumerator_fmap(ue, func) ELSE ue
  /\ added' = EmptyMap
  /\ UNCHANGED <<flattened, emptyChild, emptyRange, exceeded, rng>>
  /\ \E k \in Adds([i \in DOMAIN Keys(ct) |-> <<func[Keys(ct)[i]], ct[Keys(ct)[i]]>>],
                    Counter_fmap(ct, func)) :
       /\ ct' = k.val
       /\ panicked' = panicked \cup (IF k.panic THEN {"Counter"} ELSE {})

\* S::fmap_rand(functor, rng, func) with the random variable R
FmapRand(R, func) ==
  /\ Step(Op("fmap_rand", func, R, NoRange, NoChild))
  /\ en' = IF "Enumerator" \in Live THEN Enumerator_fmap_rand(en, R, func) ELSE en
  /\ Fits(en')
  /\ ue' = IF "UniqueEnumerator" \in Live THEN UniqueEnumerator_fmap_rand(ue, R, func) ELSE ue
  /\ added' = EmptyMap
  /\ UNCHANGED <<flattened, emptyChild, emptyRange>>
  /\ exceeded' = (exceeded \/ ("PopulationSampler" \in Live
                    /\ Len(ps) * Len(RandomVariable_sample_space(R)) > N))
  /\ \E k \in Adds(counter_pairs(ct, Keys(ct), RandomVariable_sample_space(R), func),
                    Counter_fmap_rand(ct, R, func)) :
       /\ ct' = k.val
       /\ panicked' = panicked \cup (IF k.panic THEN {"Counter"} ELSE {})
  /\ IF "Sampler" \in Live
     THEN \E r \in SeqRange(RandomVariable_sample_space(R)) :
            sm' = Sampler_fmap_rand(sm, r, func)
     ELSE sm' = sm
  /\ IF "PopulationSampler" \in Live
     THEN \E o \in PopulationSampler_fmap_rand(ps, N, R, rng["PopulationSampler"], func) :
            ps' = o.f /\ rng' = Drawn(0, o.rng)
     ELSE ps' = ps /\ rng' = Drawn(IF "Sampler" \in Live THEN Rng_gen(rng["Sampler"]) ELSE 0, 0)

\* S::fmap_rand_range(functor, range, rng, func); rng.gen_range(range) panics
\* on an empty range
FmapRandRange(range, func) ==
  /\ Step(Op("fmap_rand_range", func, Bool, range, NoChild))
  /\ en' = IF "Enumerator" \in Live THEN Enumerator_fmap_rand_range(en, range, func) ELSE en
  /\ Fits(en')
  /\ ue' = IF "UniqueEnumerator" \in Live
           THEN UniqueEnumerator_fmap_rand_range(ue, range, func) ELSE ue
  /\ added' = EmptyMap
  /\ UNCHANGED <<flattened, emptyChild>>
  /\ emptyRange' = (emptyRange \/ sample_space(range) = <<>>)
  /\ exceeded' = (exceeded \/ ("PopulationSampler" \in Live
                    /\ Len(ps) * Len(sample_space(range)) > N))
  /\ \E k \in Adds(counter_pairs(ct, Keys(ct), sample_space(range), func),
                    Counter_fmap_rand_range(ct, range, func)) :
       /\ ct' = k.val
       /\ panicked' = panicked
            \cup (IF "Sampler" \in Live /\ sample_space(range) = <<>> THEN {"Sampler"} ELSE {})
            \cup (IF k.panic THEN {"Counter"} ELSE {})
  /\ IF "Sampler" \in Live /\ sample_space(range) # <<>>
     THEN \E r \in SeqRange(sample_space(range)) : sm' = Sampler_fmap_rand_range(sm, r, func)
     ELSE sm' = sm
  /\ IF "PopulationSampler" \in Live
     THEN \E o \in PopulationSampler_fmap_rand_range(ps, N, range, rng["PopulationSampler"], func) :
            ps' = o.f /\ rng' = Drawn(0, o.rng)
     ELSE /\ ps' = ps
          /\ rng' = Drawn(IF "Sampler" \in Live /\ sample_space(range) # <<>>
                           THEN Rng_gen(rng["Sampler"]) ELSE IF "Sampler" \in run THEN rng["Sampler"] ELSE 0, 0)

\* S::fmap_flat(functor, func)
FmapFlat(c) ==
  /\ "PopulationSampler" \notin run
  /\ Step(Op("fmap_flat", <<>>, Bool, NoRange, c))
  /\ LET s == IF "Sampler" \in Live THEN Sampler_fmap_flat(sm, c, rng["Sampler"])
              ELSE {[val |-> sm, rng |-> 0]}
         e == IF "Enumerator" \in Live THEN Enumerator_fmap_flat(en, c)
              ELSE [panic |-> FALSE, val |-> en]
         k == IF "Counter" \in Live THEN Counter_fmap_flat(ct, c)
              ELSE [panic |-> FALSE, val |-> ct, added |-> EmptyMap]
     IN /\ en' = IF e.panic THEN en ELSE e.val
        /\ Fits(en')
        /\ ct' = IF k.panic THEN ct ELSE k.val
        /\ added' = k.added
        /\ panicked' = panicked \cup (IF s = {} THEN {"Sampler"} ELSE {})
                                \cup (IF e.panic THEN {"Enumerator"} ELSE {})
                                \cup (IF k.panic THEN {"Counter"} ELSE {})
        /\ IF s = {} THEN sm' = sm /\ rng' = rng
           ELSE \E o \in s :
                  /\ sm' = o.val
                  /\ rng' = [x \in run |-> IF x = "Sampler" /\ x \in Live THEN o.rng ELSE rng[x]]
  /\ ue' = IF "UniqueEnumerator" \in Live THEN UniqueEnumerator_fmap_flat(ue, c) ELSE ue
  /\ emptyRange' = (emptyRange \/ (c.kind = "test" /\ sample_space(c.range) = <<>>))
  /\ emptyChild' = (emptyChild \/ ("Enumerator" \in Live /\
                      \E i \in DOMAIN en : Enumerator_child(c, en[i]) = <<>>))
  /\ flattened' = TRUE
  /\ UNCHANGED <<ps, exceeded>>

Next ==
  \/ \E func \in MapFuncs : Fmap(func)
  \/ \E func \in BoolFuncs : FmapRand(Bool, func)
  \/ \E range \in Ranges, func \in IntFuncs : FmapRandRange(range, func)
  \/ \E c \in ChildFuncs : FmapFlat(c)

Spec == Init /\ [][Next]_vars

(* ------------------------ the processes of the tests ------------------- *)
\* Largest value handed to the processes of the tests as their base.
MaxBase == 40
TestBases == 0..MaxBase

U8 == Integer(FALSE, 8)
I8 == Integer(TRUE, 8)
\* The values of u8
Byte == Int_MIN(U8)..Int_MAX(U8)

\* fmap_flat.rs: |d, r: u8| d.saturating_sub(r)
SaturatingSub_u8 == [p \in Byte \X Byte |-> IF p[1] >= p[2] THEN p[1] - p[2] ELSE 0]
\* fmap_flat.rs: |_, r: u8| r
Second_u8 == [p \in Byte \X Byte |-> p[2]]
\* random_variable_ranges.rs: |d, r: u8| (d * (r as u16)) / 255, on u16
MulDiv255 == [p \in TestBases \X Byte |-> ((p[1] * p[2]) % 2^16) \div Int_MAX(U8)]
\* custom_random_variables.rs: |_, pair| pair
Drawn_only(R) == [p \in TestBases \X SeqRange(RandomVariable_sample_space(R)) |-> p[2]]

\* fmap_flat.rs: 0..=16 and 200..=210; random_variable_ranges.rs: 217..=255
FlatRange == [incl |-> TRUE, lo |-> 0, hi |-> 16]
ChildRange == [incl |-> TRUE, lo |-> 200, hi |-> 210]
ScaleRange == [incl |-> TRUE, lo |-> 217, hi |-> 255]
\* fmap_flat.rs: |d| if d != 0 { Functor::pure(d) } else { .. 200..=210 .. }
FlatChild == [kind |-> "test", range |-> ChildRange, func |-> Second_u8]

\* The random variables dummy_random_process is instantiated with
TestVariables == {Bool, U8, I8, Pair(Bool, U8), Pair(I8, Bool), Pair(Bool, Bool)}

TestInit ==
  /\ base \in TestBases
  /\ run \in {Tested, Enumerated}
  /\ N = 0
  /\ rng = [x \in run |-> 0]
  /\ Pure

\* fmap_flat.rs, random_process: the first operator
FlatFirst == run = Tested /\ steps = 0 /\ FmapRandRange(FlatRange, SaturatingSub_u8)
\* fmap_flat.rs, random_process: the second operator
FlatSecond == steps = 1 /\ last.range = FlatRange /\ FmapFlat(FlatChild)
\* random_variable_ranges.rs, random_process
Scale == run = Tested /\ steps = 0 /\ FmapRandRange(ScaleRange, MulDiv255)
\* custom_random_variables.rs, dummy_random_process
Dummy == run = Enumerated /\ steps = 0 /\ \E R \in TestVariables : FmapRand(R, Drawn_only(R))

TestNext == FlatFirst \/ FlatSecond \/ Scale \/ Dummy

TestSpec == TestInit /\ [][TestNext]_vars

\* Every process followed: those over the values 0..MaxVal and those of the
\* tests
AnyInit == Init \/ TestInit
AnyNext ==
  \/ run \in {Flattenable, Bounded} /\ Next
  \/ TestNext
AnySpec == AnyInit /\ [][AnyNext]_vars

\* A process of UsizeBits random steps over the values 0..MaxVal, run under
\* Counter
CountInit ==
  /\ base \in Values
  /\ run = Counted
  /\ N = 0
  /\ rng = [x \in run |-> 0]
  /\ Pure
CountNext == \E func \in BoolFuncs : FmapRand(Bool, func)
CountSpec == CountInit /\ [][CountNext]_vars

(* ------------------------------- claims -------------------------------- *)
\* C1: Enumerator-Counter projection.  For a process run under Enumerator and
\* Counter in which no fmap_flat closure returned an empty child, neither run
\* panics, the keys of Counter's map are exactly the values occurring in
\* Enumerator's sequence, and each key's weight is its number of occurrences.
C1_EnumeratorCounterProjection ==
  ({"Enumerator", "Counter"} \subseteq run /\ ~emptyChild) =>
    /\ {"Enumerator", "Counter"} \cap panicked = {}
    /\ DOMAIN ct = SeqRange(en)
    /\ \A v \in Values : Count(en, v) = (IF v \in DOMAIN ct THEN ct[v] ELSE 0)

\* A process whose last step was fmap_flat with children of different
\* lengths, giving keys of different weights.
C1_Witness ==
  /\ {"Enumerator", "Counter"} \subseteq run
  /\ ~emptyChild
  /\ last.op = "fmap_flat"
  /\ Len(en) > Len(prev.en)
  /\ \E v, w \in DOMAIN ct : ct[v] > ct[w] /\ ct[w] > 1

\* C2: UniqueEnumerator support equality.  For a process of fmap, fmap_rand and
\* fmap_rand_range steps, UniqueEnumerator's set is the set of the values in
\* Enumerator's sequence.
C2_UniqueEnumeratorSupport ==
  ({"Enumerator", "UniqueEnumerator"} \subseteq run /\ ~flattened) => ue = SeqRange(en)

\* Two steps, with values occurring more than once in the enumeration.
C2_Witness ==
  /\ {"Enumerator", "UniqueEnumerator"} \subseteq run
  /\ ~flattened
  /\ steps = MaxSteps
  /\ last.op = "fmap_rand_range"
  /\ Cardinality(ue) >= 2
  /\ Cardinality(ue) < Len(en)

\* C3 as stated: for every N >= 0, PopulationSampler<N>'s functor has length
\* <= N at pure and when fmap, fmap_rand and fmap_rand_range return.
C3_BoundForEveryN ==
  "PopulationSampler" \in run => Len(ps) <= N

\* C3 amended: the bound holds for every N >= 1 at pure and after every
\* operator, and for every N >= 0 when fmap_rand and fmap_rand_range return.
C3_PopulationSamplerBound ==
  "PopulationSampler" \in run =>
    /\ N >= 1 => Len(ps) <= N
    /\ last.op \in {"fmap_rand", "fmap_rand_range"} => Len(ps) <= N

\* An expansion longer than N >= 1 was shrunk to N elements.
C3_Witness ==
  /\ "PopulationSampler" \in run
  /\ N >= 1
  /\ last.op = "fmap_rand_range"
  /\ Len(prev.ps) * Len(sample_space(last.range)) > N
  /\ Len(ps) = N

\* C4: identity law.  S::fmap(S::pure(a), identity) is S::pure(a): the value
\* itself, the vector [a], the set {a}, the map {a -> 1}.
C4_IdentityLaw ==
  (steps = 1 /\ last.op = "fmap" /\ last.func = Identity) =>
    /\ "Sampler" \in run => sm = base
    /\ "Enumerator" \in run => en = <<base>>
    /\ "PopulationSampler" \in run => ps = <<base>>
    /\ "UniqueEnumerator" \in run => ue = {base}
    /\ "Counter" \in run => ct = (base :> 1)

\* fmap with the identity was applied to pure(base).
C4_Witness ==
  /\ steps = 1
  /\ last.op = "fmap"
  /\ last.func = Identity
  /\ run = Flattenable
  /\ base = MaxVal

\* h after g
Compose(h, g) == [a \in Values |-> h[g[a]]]

\* C5: composition law.  The functor is S::fmap(f, g), f the functor before the
\* last step and g its closure; for every h, S::fmap(S::fmap(f, g), h) equals
\* S::fmap(f, h after g), for every strategy.
C5_CompositionLaw ==
  last.op = "fmap" =>
    \A h \in MapFuncs :
      /\ "Sampler" \in Live =>
           Sampler_fmap(sm, h) = Sampler_fmap(prev.sm, Compose(h, last.func))
      /\ "Enumerator" \in Live =>
           Enumerator_fmap(en, h) = Enumerator_fmap(prev.en, Compose(h, last.func))
      /\ "PopulationSampler" \in Live =>
           PopulationSampler_fmap(ps, h)
             = PopulationSampler_fmap(prev.ps, Compose(h, last.func))
      /\ "UniqueEnumerator" \in Live =>
           UniqueEnumerator_fmap(ue, h)
             = UniqueEnumerator_fmap(prev.ue, Compose(h, last.func))
      /\ "Counter" \in Live =>
           Counter_fmap(ct, h) = Counter_fmap(prev.ct, Compose(h, last.func))

\* g merged two keys of a Counter map (and two elements of the set).
C5_Witness ==
  /\ last.op = "fmap"
  /\ last.func = RemTwo
  /\ {"Counter", "UniqueEnumerator"} \subseteq Live
  /\ Cardinality(DOMAIN ct) < Cardinality(DOMAIN prev.ct)
  /\ Cardinality(ue) < Cardinality(prev.ue)

RECURSIVE Mass(_)
\* The sum of all weights of a map
Mass(f) ==
  IF DOMAIN f = {} THEN 0
  ELSE LET a == CHOOSE x \in DOMAIN f : TRUE
       IN f[a] + Mass([x \in DOMAIN f \ {a} |-> f[x]])

RECURSIVE Product(_)
Product(S) == IF S = {} THEN 1 ELSE LET x == CHOOSE y \in S : TRUE IN x * Product(S \ {x})
\* The least common multiple of a set of positive numbers
LeastCommonMultiple(S) ==
  CHOOSE m \in 1..Product(S) :
    /\ \A x \in S : m % x = 0
    /\ \A k \in 1..(m - 1) : \E x \in S : k % x # 0

\* Counter ran fmap_flat in the last step on prev.ct
CounterFlattened == last.op = "fmap_flat" /\ "Counter" \in run \ prev.panicked
\* The weight sums of the children of the last fmap_flat
ChildSum(a) == Mass(Counter_child(last.child, a))
ChildSums == {ChildSum(a) : a \in DOMAIN prev.ct}

\* C6: Counter fmap_flat, total mass.  When every child has a non-zero weight
\* sum, the weights of the result sum to (the sum of the outer weights) times
\* (the least common multiple of the children's weight sums).
C6_FlatMapTotalMass ==
  (CounterFlattened /\ 0 \notin ChildSums) =>
    /\ "Counter" \notin panicked
    /\ Mass(ct) = Mass(prev.ct) * LeastCommonMultiple(ChildSums)

\* Children with different weight sums, one above 1 under an outer weight
\* above 1.
C6_Witness ==
  /\ CounterFlattened
  /\ 0 \notin ChildSums
  /\ Cardinality(ChildSums) >= 2
  /\ \E a \in DOMAIN prev.ct : prev.ct[a] > 1 /\ ChildSum(a) > 1

\* C7 as stated: the branch of the outer key a adds the total mass
\* lcm * outer_a / sum_a.
C7_BranchMassDividedBySum ==
  (CounterFlattened /\ 0 \notin ChildSums) =>
    \A a \in DOMAIN prev.ct :
      added[a] * ChildSum(a) = LeastCommonMultiple(ChildSums) * prev.ct[a]

\* C7 amended: the branch of the outer key a adds the total mass lcm * outer_a
\* (each key k of its child receives (lcm / sum_a) * inner_k * outer_a).
C7_FlatMapBranchMass ==
  (CounterFlattened /\ 0 \notin ChildSums) =>
    /\ DOMAIN added = DOMAIN prev.ct
    /\ \A a \in DOMAIN prev.ct :
         added[a] = LeastCommonMultiple(ChildSums) * prev.ct[a]

\* Branches with different weight sums, one of them above 1, were rescaled.
C7_Witness ==
  /\ CounterFlattened
  /\ 0 \notin ChildSums
  /\ \E a, b \in DOMAIN prev.ct :
       /\ ChildSum(a) > ChildSum(b)
       /\ ChildSum(b) > 1
       /\ added[a] > 0

\* The elements of s that satisfy keep
Filter(s, keep) == SelectSeq(s, LAMBDA x : x \in keep)

\* C8 as stated: when the closure returns an empty child for some element,
\* fmap_flat completes (no division by zero) and returns the empty container or
\* the flattening of the non-empty branches.
C8_EmptyBranchCompletes ==
  last.op = "fmap_flat" =>
    /\ ("Enumerator" \in run \ prev.panicked
          /\ \E i \in DOMAIN prev.en : Enumerator_child(last.child, prev.en[i]) = <<>>) =>
         /\ "Enumerator" \notin panicked
         /\ \/ en = <<>>
            \/ en = Enumerator_fmap_flat(
                      Filter(prev.en, {v \in Values : Enumerator_child(last.child, v) # <<>>}),
                      last.child).val
    /\ ("Counter" \in run \ prev.panicked
          /\ \E a \in DOMAIN prev.ct : Counter_child(last.child, a) = EmptyMap) =>
         /\ "Counter" \notin panicked
         /\ \/ ct = EmptyMap
            \/ ct = Counter_fmap_flat(
                      [a \in {v \in DOMAIN prev.ct : Counter_child(last.child, v) # EmptyMap}
                         |-> prev.ct[a]],
                      last.child).val

\* C9: Enumerator fmap_rand / fmap_rand_range is the ordered Cartesian product.
\* With f the sequence before the step and m the size of the sample space
\* (false, true; lo..hi-1 for lo..hi; lo..hi for lo..=hi; none when empty), the
\* result has length Len(f) * m and holds func(f_i, r_j) at index i * m + j.
C9_EnumeratorCartesianProduct ==
  ("Enumerator" \in Live /\ last.op \in {"fmap_rand", "fmap_rand_range"}) =>
    LET f == prev.en
        lo == last.range.lo
        hi == last.range.hi
        size == IF last.range.incl THEN hi - lo + 1 ELSE hi - lo
        m == IF last.op = "fmap_rand" THEN 2 ELSE IF size > 0 THEN size ELSE 0
        r(j) == IF last.op = "fmap_rand" THEN j = 1 ELSE lo + j
    IN /\ Len(en) = Len(f) * m
       /\ \A i \in 0..(Len(f) - 1), j \in 0..(m - 1) :
            en[i * m + j + 1] = last.func[<<f[i + 1], r(j)>>]

\* A half-open range of two or more values over a sequence of two or more
\* elements, with a closure that reads both arguments.
C9_Witness ==
  /\ "Enumerator" \in Live
  /\ last.op = "fmap_rand_range"
  /\ ~last.range.incl
  /\ last.range.hi - last.range.lo >= 2
  /\ last.func = SaturatingSub
  /\ Cardinality(SeqRange(prev.en)) >= 2

RECURSIVE IsSubsequence(_, _)
\* s can be obtained from t by deleting elements (the relative order is kept)
IsSubsequence(s, t) ==
  IF s = <<>> THEN TRUE
  ELSE IF t = <<>> THEN FALSE
  ELSE IF Head(s) = Head(t) THEN IsSubsequence(Tail(s), Tail(t))
  ELSE IsSubsequence(s, Tail(t))

\* PopulationSampler ran fmap_rand / fmap_rand_range in the last step
PopulationExpanded ==
  "PopulationSampler" \in Live /\ last.op \in {"fmap_rand", "fmap_rand_range"}
\* The expansion Enumerator produces for the same input and closure
Expansion ==
  IF last.op = "fmap_rand" THEN Enumerator_fmap_rand(prev.ps, last.rv, last.func)
  ELSE Enumerator_fmap_rand_range(prev.ps, last.range, last.func)

\* C10 as stated: the elements PopulationSampler<N>::fmap_rand /
\* fmap_rand_range returns appear in the same relative order as in the
\* expansion, also when elements were removed.
C10_OrderKeptAfterRemoval ==
  PopulationExpanded => IsSubsequence(ps, Expansion)

\* C10 amended: when the expansion is no longer than N the result is the
\* expansion itself, in its order; when it is longer the result has N
\* elements, each value at most as often as in the expansion, and the order
\* is not kept (swap_remove moves the last element into the freed slot).
C10_PopulationSamplerOrder ==
  PopulationExpanded =>
    /\ Len(Expansion) <= N => ps = Expansion
    /\ Len(Expansion) > N =>
         /\ Len(ps) = N
         /\ \A v \in Values : Count(ps, v) <= Count(Expansion, v)

\* Elements were removed and the result is out of the expansion's order.
C10_Witness ==
  /\ PopulationExpanded
  /\ Len(Expansion) > N
  /\ Len(ps) = N
  /\ ~IsSubsequence(ps, Expansion)

\* The strategies that enumerate instead of sampling
Deterministic == {"Enumerator", "UniqueEnumerator", "Counter"}

\* C11: deterministic strategies ignore the rng.  When fmap_rand or
\* fmap_rand_range returns under Enumerator, UniqueEnumerator or Counter, the
\* rng is in the state it was handed over in, and the functor returned is the
\* one determined by the functor, the closure and the range alone, whatever the
\* state of the rng.
C11_DeterministicIgnoreRng ==
  last.op \in {"fmap_rand", "fmap_rand_range"} =>
    /\ \A x \in (run \cap Deterministic) \ prev.panicked : rng[x] = prev.rng[x]
    /\ LET space == IF last.op = "fmap_rand" THEN RandomVariable_sample_space(last.rv)
                    ELSE sample_space(last.range)
       IN /\ "Enumerator" \in run \ prev.panicked =>
               en = vec_fmap_rand(prev.en, space, last.func)
          /\ "UniqueEnumerator" \in run \ prev.panicked =>
               ue = {last.func[<<a, r>>] : a \in prev.ue, r \in SeqRange(space)}
          /\ "Counter" \in run \ prev.panicked =>
               /\ DOMAIN ct = {last.func[<<a, r>>] : a \in DOMAIN prev.ct, r \in SeqRange(space)}
               /\ \A b \in DOMAIN ct :
                    ct[b] = Mass([p \in {q \in (DOMAIN prev.ct) \X SeqRange(space) :
                                          last.func[q] = b} |-> prev.ct[p[1]]])

\* Two random steps from an rng received at position 1: Sampler's rng moved
\* twice while the rngs of the three deterministic strategies stayed at 1.
C11_Witness ==
  /\ run = Flattenable
  /\ panicked = {}
  /\ steps = 2
  /\ last.op = "fmap_rand_range"
  /\ sample_space(last.range) # <<>>
  /\ rng["Sampler"] = 3
  /\ \A x \in Deterministic : rng[x] = 1
  /\ Len(en) >= 4

\* The process of fmap_flat.rs has returned
FlatDone == run = Tested /\ last.op = "fmap_flat" /\ prev.panicked = {}

\* C12: scenario F.  pure(9), fmap_rand_range over 0..=16 with
\* d.saturating_sub(r), then fmap_flat with (d != 0: pure(d); d = 0:
\* fmap_rand_range over 200..=210 of pure(0) returning r) gives under Counter a
\* map of exactly 20 keys with weight sum 17 * 11 = 187, weight 11 for each key
\* 1..=9 and weight 8 for each key 200..=210, and under Enumerator a sequence of
\* length 187 with the same numbers as multiplicities.
C12_ScenarioF ==
  (FlatDone /\ base = 9) =>
    /\ panicked = {}
    /\ Cardinality(DOMAIN ct) = 20
    /\ DOMAIN ct = (1..9) \cup (200..210)
    /\ Mass(ct) = 17 * 11
    /\ Mass(ct) = 187
    /\ \A i \in 1..9 : ct[i] = 11
    /\ \A i \in 200..210 : ct[i] = 8
    /\ Len(en) = 187
    /\ \A i \in 1..9 : Count(en, i) = 11
    /\ \A i \in 200..210 : Count(en, i) = 8

\* The process of fmap_flat.rs has returned for base = 9: zero was drawn eight
\* times in the first step and spread over 200..=210 in the second.
C12_Witness ==
  /\ FlatDone
  /\ base = 9
  /\ prev.ct[0] = 8
  /\ Len(prev.en) = 17
  /\ 205 \in DOMAIN ct

\* false, true for bool; MIN..=MAX ascending for u8 (0..=255) and i8 (-128..=127)
Enumeration(R) ==
  IF R.kind = "bool" THEN <<FALSE, TRUE>>
  ELSE IF R.signed THEN [i \in 1..256 |-> i - 129]
  ELSE [i \in 1..256 |-> i - 1]

\* C13: sample-space consistency.  Enumerator::fmap_rand applied to pure(x)
\* with the closure |_, r| r returns the sample space of R: false, true for
\* bool and MIN..=MAX ascending for an integer type, each value once; for
\* Pair<A, B> it returns every pair exactly once, the first field outer and
\* the second field inner.
C13_SampleSpaceConsistency ==
  (run = Enumerated /\ last.op = "fmap_rand") =>
    IF last.rv.kind = "Pair"
    THEN LET xs == Enumeration(last.rv.x)
             ys == Enumeration(last.rv.y)
         IN /\ Len(en) = Len(xs) * Len(ys)
            /\ \A i \in DOMAIN xs, j \in DOMAIN ys :
                 en[(i - 1) * Len(ys) + j] = [x |-> xs[i], y |-> ys[j]]
            /\ \A i \in DOMAIN xs, j \in DOMAIN ys :
                 Count(en, [x |-> xs[i], y |-> ys[j]]) = 1
    ELSE /\ en = Enumeration(last.rv)
         /\ \A r \in SeqRange(Enumeration(last.rv)) : Count(en, r) = 1

\* Pair<i8, bool> was enumerated: 512 pairs from (-128, false) to (127, true).
C13_Witness ==
  /\ run = Enumerated
  /\ last.op = "fmap_rand"
  /\ last.rv = Pair(I8, Bool)
  /\ Len(en) = 512
  /\ en[1] = [x |-> 0 - 128, y |-> FALSE]
  /\ en[512] = [x |-> 127, y |-> TRUE]

\* Enumerator ran fmap_flat in the last step on prev.en
EnumeratorFlattened == last.op = "fmap_flat" /\ "Enumerator" \in run \ prev.panicked
\* The child the closure of the last fmap_flat returns for the i-th element
ChildOf(i) == Enumerator_child(last.child, prev.en[i])
ChildLens == {Len(ChildOf(i)) : i \in DOMAIN prev.en}

\* C14: Enumerator fmap_flat is length-LCM flattening.  With all children
\* non-empty and L the least common multiple of their lengths, the result is
\* the concatenation, in the order of f, of each child repeated as a whole
\* L / Len(child) times: every element of f contributes exactly L output
\* elements, the output has Len(f) * L elements, and an empty f gives the
\* empty sequence.
C14_EnumeratorFlatMapLcm ==
  (EnumeratorFlattened /\ 0 \notin ChildLens) =>
    /\ "Enumerator" \notin panicked
    /\ prev.en = <<>> => en = <<>>
    /\ prev.en # <<>> =>
         LET L == LeastCommonMultiple(ChildLens)
         IN /\ Len(en) = Len(prev.en) * L
            /\ \A i \in DOMAIN prev.en, k \in 1..L :
                 en[(i - 1) * L + k] = ChildOf(i)[((k - 1) % Len(ChildOf(i))) + 1]

\* Children of the lengths 2 and 3 were repeated 3 and 2 times.
C14_Witness ==
  /\ EnumeratorFlattened
  /\ {2, 3} \subseteq ChildLens
  /\ 0 \notin ChildLens
  /\ Len(en) = Len(prev.en) * 6

\* An empty sequence was flattened.
C14_WitnessEmpty == EnumeratorFlattened /\ prev.en = <<>> /\ en = <<>>

\* The child the closure of the last fmap_flat returns for the outer key a
CounterChildOf(a) == Counter_child(last.child, a)

\* C15: Counter fmap_flat is weight-LCM rescaling.  With all children's weight
\* sums non-zero and M their least common multiple, the result maps each key k
\* to the sum over the outer keys a of (M / sum_a) * child_a[k] * outer_a (the
\* contributions of different branches to one key are added), has no other
\* key, and is the empty map when f is empty.
C15_CounterFlatMapRescaling ==
  (CounterFlattened /\ 0 \notin ChildSums) =>
    /\ "Counter" \notin panicked
    /\ prev.ct = EmptyMap => ct = EmptyMap
    /\ prev.ct # EmptyMap =>
         LET M == LeastCommonMultiple(ChildSums)
         IN /\ DOMAIN ct = UNION {DOMAIN CounterChildOf(a) : a \in DOMAIN prev.ct}
            /\ \A k \in DOMAIN ct :
                 ct[k] = Mass([a \in {b \in DOMAIN prev.ct : k \in DOMAIN CounterChildOf(b)} |->
                                 (M \div ChildSum(a)) * CounterChildOf(a)[k] * prev.ct[a]])

\* Two branches with different weight sums above 1 added to the same key, one
\* of them from a child weight above 1.
C15_Witness ==
  /\ CounterFlattened
  /\ 0 \notin ChildSums
  /\ \E a, b \in DOMAIN prev.ct, k \in DOMAIN ct :
       /\ a # b
       /\ ChildSum(a) # ChildSum(b)
       /\ ChildSum(b) > 1
       /\ k \in DOMAIN CounterChildOf(a) \cap DOMAIN CounterChildOf(b)
       /\ CounterChildOf(a)[k] > 1

\* An empty map was flattened.
C15_WitnessEmpty == CounterFlattened /\ prev.ct = EmptyMap /\ ct = EmptyMap

\* Counter ran fmap in the last step on prev.ct
CounterMapped == last.op = "fmap" /\ "Counter" \in run \ prev.panicked

\* C16: Counter fmap merges counts.  fmap(f, g) maps each value b to the sum of
\* f's weights over the keys a with g(a) = b and has no other key; the sum of
\* the weights is unchanged and the number of keys does not increase.
C16_CounterMapMerges ==
  CounterMapped =>
    /\ DOMAIN ct = {last.func[a] : a \in DOMAIN prev.ct}
    /\ \A b \in DOMAIN ct :
         ct[b] = Mass([a \in {x \in DOMAIN prev.ct : last.func[x] = b} |-> prev.ct[a]])
    /\ Mass(ct) = Mass(prev.ct)
    /\ Cardinality(DOMAIN ct) <= Cardinality(DOMAIN prev.ct)

\* Two keys of a map of three were merged into one, which holds both weights.
C16_Witness ==
  /\ CounterMapped
  /\ Cardinality(DOMAIN prev.ct) = 3
  /\ Cardinality(DOMAIN ct) = 2
  /\ \E a, b \in DOMAIN prev.ct :
       /\ a # b
       /\ last.func[a] = last.func[b]
       /\ ct[last.func[a]] = prev.ct[a] + prev.ct[b]

\* Counter ran fmap_rand / fmap_rand_range in the last step on prev.ct
CounterExpanded ==
  last.op \in {"fmap_rand", "fmap_rand_range"} /\ "Counter" \in run \ prev.panicked
\* The values of the sample space (false and true) or of the range of the last
\* step (lo..hi-1 for lo..hi, lo..hi for lo..=hi)
Drawable ==
  IF last.op = "fmap_rand" THEN BOOLEAN
  ELSE IF last.range.incl THEN last.range.lo..last.range.hi
  ELSE last.range.lo..(last.range.hi - 1)

\* C17: Counter fmap_rand / fmap_rand_range.  The result maps each value b to
\* the sum of f[a] over all pairs (a, r), a a key of f and r in the sample
\* space (or range), with g(a, r) = b; the weights sum to the input's sum times
\* the size of the sample space (or range).  pure(40) followed by
\* fmap_rand_range over 217..=255 with (d * r) / 255 gives
\* {34:7, 35:6, 36:6, 37:7, 38:6, 39:6, 40:1}, of weight sum 39.
C17_CounterMapRand ==
  CounterExpanded =>
    /\ DOMAIN ct = {last.func[<<a, r>>] : a \in DOMAIN prev.ct, r \in Drawable}
    /\ \A b \in DOMAIN ct :
         ct[b] = Mass([p \in {q \in (DOMAIN prev.ct) \X Drawable : last.func[q] = b}
                         |-> prev.ct[p[1]]])
    /\ Mass(ct) = Mass(prev.ct) * Cardinality(Drawable)
    /\ (run = Tested /\ base = 40 /\ last.range = ScaleRange) =>
         /\ ct = (34 :> 7) @@ (35 :> 6) @@ (36 :> 6) @@ (37 :> 7) @@ (38 :> 6)
                   @@ (39 :> 6) @@ (40 :> 1)
         /\ Mass(ct) = 39

\* The process of random_variable_ranges.rs has returned for base = 40.
C17_Witness ==
  /\ run = Tested
  /\ base = 40
  /\ CounterExpanded
  /\ last.range = ScaleRange
  /\ prev.ct = (40 :> 1)
  /\ Cardinality(DOMAIN ct) = 7

\* A map of several keys was expanded over the booleans, outputs colliding.
C17_WitnessRand ==
  /\ CounterExpanded
  /\ last.op = "fmap_rand"
  /\ Cardinality(DOMAIN prev.ct) >= 2
  /\ \E b \in DOMAIN ct : ct[b] >= 2

\* The length of the expansion PopulationSampler<N> built in the last step
ExpansionLen ==
  Len(prev.ps) * (IF last.op = "fmap_rand" THEN 2 ELSE Cardinality(Drawable))

\* C18: shrink_to_capacity terminates with the exact length.  For an expansion
\* of E elements and the bound N the loop makes exactly max(0, E - N)
\* iterations, each drawing one index and removing one element, so fmap_rand /
\* fmap_rand_range returns exactly min(N, E) elements.
C18_ShrinkExactLength ==
  PopulationExpanded =>
    /\ Len(ps) = (IF ExpansionLen <= N THEN ExpansionLen ELSE N)
    /\ rng["PopulationSampler"] - prev.rng["PopulationSampler"]
         = (IF ExpansionLen <= N THEN 0 ELSE ExpansionLen - N)

\* Four elements of six were removed by four draws, down to N = 2.
C18_Witness ==
  /\ PopulationExpanded
  /\ N = 2
  /\ ExpansionLen = 6
  /\ Len(ps) = 2
  /\ rng["PopulationSampler"] = prev.rng["PopulationSampler"] + 4

\* Sampler ran the last step on prev.sm
SamplerStepped == last.op # "pure" /\ "Sampler" \in run \ prev.panicked
\* Sampler's rng was drawn from n times in the last step
SamplerDrew(n) == rng["Sampler"] = prev.rng["Sampler"] + n
\* What the closure of the last fmap_flat can return for prev.sm, with the
\* state it leaves the rng it captured in
SamplerChildOf == Sampler_child(last.child, prev.sm, prev.rng["Sampler"])

\* What C19 says of fmap, fmap_flat and fmap_rand
SamplerPointwise ==
  /\ last.op = "fmap" => sm = last.func[prev.sm] /\ SamplerDrew(0)
  /\ last.op = "fmap_flat" =>
       IF SamplerChildOf = {} THEN "Sampler" \in panicked
       ELSE "Sampler" \notin panicked /\ [val |-> sm, rng |-> rng["Sampler"]] \in SamplerChildOf
  /\ last.op = "fmap_rand" =>
       /\ \E r \in Drawable : sm = last.func[<<prev.sm, r>>]
       /\ SamplerDrew(1)

\* C19 as stated: fmap and fmap_flat return g(a) without drawing themselves,
\* fmap_rand draws exactly one r and returns g(a, r), and fmap_rand_range, for
\* every range, draws exactly one r in the range and returns g(a, r).
C19_OneDrawForEveryRange ==
  SamplerStepped =>
    /\ SamplerPointwise
    /\ last.op = "fmap_rand_range" =>
         /\ "Sampler" \notin panicked
         /\ \E r \in Drawable : sm = last.func[<<prev.sm, r>>]
         /\ SamplerDrew(1)

\* C19 amended: as stated, but fmap_rand_range draws exactly one r in the range
\* and returns g(a, r) when the range is not empty; on an empty range the draw
\* panics and nothing is returned.
C19_SamplerPointwise ==
  SamplerStepped =>
    /\ SamplerPointwise
    /\ last.op = "fmap_rand_range" =>
         IF Drawable = {} THEN "Sampler" \in panicked
         ELSE /\ "Sampler" \notin panicked
              /\ \E r \in Drawable : sm = last.func[<<prev.sm, r>>]
              /\ SamplerDrew(1)

\* The second of two random steps drew from a range of three values and the
\* closure used the draw.
C19_Witness ==
  /\ SamplerStepped
  /\ steps = 2
  /\ last.op = "fmap_rand_range"
  /\ Cardinality(Drawable) = 3
  /\ last.func = SaturatingSub
  /\ sm # prev.sm
  /\ SamplerDrew(1)
  /\ rng["Sampler"] >= 2

\* fmap_flat returned what its closure returned, the closure having drawn once.
C19_WitnessFlat ==
  /\ SamplerStepped
  /\ last.op = "fmap_flat"
  /\ "Sampler" \notin panicked
  /\ SamplerDrew(1)

\* C20: Counter has no zero weights: in every Counter functor reachable from
\* pure by fmap, fmap_rand, fmap_rand_range and fmap_flat steps, every key
\* present in the map has a weight >= 1.
C20_NoZeroWeights ==
  "Counter" \in Live => \A k \in DOMAIN ct : ct[k] >= 1

\* The state C20 fails in: a key of Counter's map has the weight zero, after
\* UsizeBits random steps that each doubled it.
C20_ZeroWeight ==
  /\ "Counter" \in Live
  /\ steps = UsizeBits
  /\ ct = (0 :> 0)
\* With overflow checks the same process panics instead.
C20_OverflowPanic ==
  /\ "Counter" \in panicked
  /\ steps = UsizeBits
  /\ prev.ct = (0 :> 2^(UsizeBits - 1))

\* The last step was an fmap_flat that both Enumerator and UniqueEnumerator ran
BothFlattened ==
  /\ last.op = "fmap_flat"
  /\ {"Enumerator", "UniqueEnumerator"} \subseteq run \ prev.panicked

\* C21: UniqueEnumerator fmap_flat is Enumerator's flattening, deduplicated.
\* For every set f and closure g the result is the union of the sets g(a) over
\* a in f, and it is the set of the distinct values of what Enumerator's
\* fmap_flat returns for the corresponding sequences.
C21_FlatMapDeduplicated ==
  BothFlattened =>
    /\ \A v \in Values :
         v \in ue <=> \E a \in prev.ue : v \in UniqueEnumerator_child(last.child, a)
    /\ "Enumerator" \notin panicked
    /\ ue = SeqRange(en)

\* The same for the closures that return no empty child: the case in which
\* Enumerator's fmap_flat returns.
C21_DeduplicatedWhenNoChildEmpty ==
  (BothFlattened /\ \A a \in prev.ue : UniqueEnumerator_child(last.child, a) # {}) =>
    /\ \A v \in Values :
         v \in ue <=> \E a \in prev.ue : v \in UniqueEnumerator_child(last.child, a)
    /\ "Enumerator" \notin panicked
    /\ ue = SeqRange(en)

\* The state C21 fails in: a child is empty, UniqueEnumerator returns the union
\* of the others and Enumerator has panicked.
C21_EmptyChild ==
  /\ BothFlattened
  /\ \E a \in prev.ue : UniqueEnumerator_child(last.child, a) = {}
  /\ ue # {}
  /\ "Enumerator" \in panicked

\* C22: Sampler refines Enumerator.  For a process of pure, fmap, fmap_rand,
\* fmap_rand_range with non-empty ranges and fmap_flat, whatever the rng
\* returns, both runs return and the value Sampler returns is an element of the
\* sequence Enumerator returns.
C22_SamplerRefinesEnumerator ==
  ({"Sampler", "Enumerator"} \subseteq run /\ ~emptyRange) =>
    /\ "Sampler" \notin panicked
    /\ "Enumerator" \notin panicked
    /\ \E i \in DOMAIN en : en[i] = sm

\* A process with a random step and an fmap_flat whose closure draws: Sampler
\* holds one of several distinct values of the enumeration, and not the first.
C22_Witness ==
  /\ {"Sampler", "Enumerator"} \subseteq run
  /\ ~emptyRange
  /\ steps = MaxSteps
  /\ last.op = "fmap_flat"
  /\ prev.rng["Sampler"] > 0
  /\ rng["Sampler"] > prev.rng["Sampler"]
  /\ Cardinality(SeqRange(en)) >= 2
  /\ sm # en[1]
  /\ \E i \in DOMAIN en : en[i] = sm

\* C23: PopulationSampler's output is a sub-multiset of the enumeration.  For
\* every N and every process of pure, fmap, fmap_rand and fmap_rand_range,
\* whatever the rng returns, each value occurs in PopulationSampler<N>'s
\* sequence at most as often as in Enumerator's; and as long as no expansion has
\* been longer than N the two sequences are equal and the rng has not been
\* drawn from.
C23_PopulationSubMultiset ==
  ({"PopulationSampler", "Enumerator"} \subseteq run /\ ~flattened) =>
    /\ \A v \in Values : Count(ps, v) <= Count(en, v)
    /\ ~exceeded => ps = en /\ rng["PopulationSampler"] = 0

\* Two random steps whose expansions were cut to N = 2 elements: the rng was
\* drawn from and a value of the enumeration occurs less often in the output.
C23_Witness ==
  /\ {"PopulationSampler", "Enumerator"} \subseteq run
  /\ steps = MaxSteps
  /\ N = 2
  /\ exceeded
  /\ rng["PopulationSampler"] >= 3
  /\ Len(ps) = 2
  /\ Len(en) >= 6
  /\ \E v \in Values : Count(ps, v) >= 1 /\ Count(ps, v) < Count(en, v)

\* Two random steps whose expansions fit in N: the sequences are equal.
C23_WitnessEqual ==
  /\ {"PopulationSampler", "Enumerator"} \subseteq run
  /\ steps = MaxSteps
  /\ ~exceeded
  /\ prev.ps # ps
  /\ Len(ps) = N
  /\ N = 2
  /\ ps = en

\* The strategies C24 is about that ran the last step
Flattening(x) == last.op = "fmap_flat" /\ x \in run \ prev.panicked

\* C24: the identity laws of fmap_flat for Sampler, Enumerator and Counter.
\* fmap_flat(f, pure) = f for every functor f (Counter keeps every weight), and
\* fmap_flat(pure(a), g) = g(a) for every a and every closure g that returns a
\* non-empty functor.
C24_FlatMapIdentityLaws ==
  /\ (Flattening("Sampler") /\ last.child.kind = "pure") =>
       "Sampler" \notin panicked /\ sm = prev.sm
  /\ (Flattening("Enumerator") /\ last.child.kind = "pure") =>
       "Enumerator" \notin panicked /\ en = prev.en
  /\ (Flattening("Counter") /\ last.child.kind = "pure") =>
       "Counter" \notin panicked /\ ct = prev.ct
  /\ (Flattening("Sampler") /\ steps = 1 /\ Sampler_child(last.child, base, prev.rng["Sampler"]) # {}) =>
       /\ "Sampler" \notin panicked
       /\ \E o \in Sampler_child(last.child, base, prev.rng["Sampler"]) :
            sm = o.val /\ rng["Sampler"] = o.rng
  /\ (Flattening("Enumerator") /\ steps = 1
        /\ Enumerator_child(last.child, base) # <<>>) =>
       "Enumerator" \notin panicked /\ en = Enumerator_child(last.child, base)
  /\ (Flattening("Counter") /\ steps = 1
        /\ Counter_child(last.child, base) # EmptyMap) =>
       "Counter" \notin panicked /\ ct = Counter_child(last.child, base)

\* fmap_flat(f, pure) returned f, a functor of several values, some of them more
\* than once.
C24_Witness ==
  /\ Flattening("Enumerator") /\ Flattening("Counter") /\ Flattening("Sampler")
  /\ last.child.kind = "pure"
  /\ steps = 2
  /\ Len(en) >= 3
  /\ Cardinality(DOMAIN ct) >= 2
  /\ \E k \in DOMAIN ct : ct[k] >= 2
  /\ en = prev.en /\ ct = prev.ct /\ sm = prev.sm

\* fmap_flat(pure(a), g) returned g(a), a functor of several values.
C24_WitnessPure ==
  /\ Flattening("Enumerator") /\ Flattening("Counter") /\ Flattening("Sampler")
  /\ steps = 1
  /\ last.child.kind = "spread"
  /\ Len(en) = 3
  /\ \E k \in DOMAIN ct : ct[k] = 2
  /\ sm # base

====
